---------------------------- MODULE Spec2Model ----------------------------
(***************************************************************************)
(* Model of env_debug_mcp/server.py: the debug_env tool, which returns the *)
(* process environment with the values of sensitive names masked.          *)
(*                                                                         *)
(* A string is a sequence of Unicode code points (naturals), so that the   *)
(* character ranges of the two regular expressions can be written as the   *)
(* source writes them.  A dict is a function from its keys to its values;  *)
(* the order of its entries is kept only where the code's result can       *)
(* depend on it (SpecConc).                                                *)
(***************************************************************************)
EXTENDS Integers, Sequences, FiniteSets

VARIABLES
    key,          \* SpecClassify: the name handed to _is_sensitive_key
    variant,      \* SpecClassify: a second name, a re-casing of key
    verdicts,     \* SpecClassify: the results returned so far, by argument
    value,        \* SpecRedact: the string handed to _redact_value
    masked,       \* SpecRedact: <<result>> once _redact_value returned
    envA,         \* SpecView: a caller's first explicit mapping
    envB,         \* SpecView: a caller's second explicit mapping
    outA,         \* SpecView: <<result>> of _get_debug_env(envA)
    outB,         \* SpecView: <<result>> of _get_debug_env(envB)
    heap,         \* Spec, SpecConc: the dict objects; heap[ENVIRON] is os.environ
    op,           \* Spec: the last operation performed; arg is the argument of
                  \* a call, and for a change of a dict the reference of the
                  \* dict when it is the one last returned (None otherwise)
    src,          \* Spec: the reference of the mapping the last call read
    ret,          \* Spec: the reference returned by the last call
    order,        \* SpecConc: the keys of os.environ in insertion order
    pc,           \* SpecConc: where the running _get_debug_env call stands
    pending,      \* SpecConc: the keys the items() iterator has yet to yield
    acc,          \* SpecConc: the dict the comprehension has built so far
    instants      \* SpecConc: every content os.environ had during the call

vars == <<key, variant, verdicts, value, masked, envA, envB, outA, outB,
          heap, op, src, ret, order, pc, pending, acc, instants>>

classifyVars == <<key, variant, verdicts>>
redactVars == <<value, masked>>
viewVars == <<envA, envB, outA, outB>>
heapVars == <<heap, op, src, ret>>
concVars == <<order, pc, pending, acc, instants>>

(***************************************************************************)
(* Characters.                                                             *)
(***************************************************************************)
STAR == 42
UNDERSCORE == 95
NEWLINE == 10

\* The literals of _SENSITIVE_PATTERN, as written in the pattern (upper case).
KEY == <<75, 69, 89>>
TOKEN == <<84, 79, 75, 69, 78>>
CRED == <<67, 82, 69, 68>>
SECRET == <<83, 69, 67, 82, 69, 84>>
AUTH == <<65, 85, 84, 72>>
PASSWORD == <<80, 65, 83, 83, 87, 79, 82, 68>>
PASSPHRASE == <<80, 65, 83, 83, 80, 72, 82, 65, 83, 69>>
PASS == <<80, 65, 83, 83>>

\* (KEY|TOKEN|CRED|SECRET|AUTH|PASSWORD|PASSPHRASE), in the pattern's order.
PrefixTokens == <<KEY, TOKEN, CRED, SECRET, AUTH, PASSWORD, PASSPHRASE>>

\* re.IGNORECASE on a str pattern: a character is compared by its lower-case
\* form.  Besides the ASCII capitals, the Kelvin sign (U+212A) lowers to k and
\* the long s (U+017F) is equivalent to s.
Lower(c) ==
    IF c \in 65..90 THEN c + 32
    ELSE IF c = 8490 THEN 107
    ELSE IF c = 383 THEN 115
    ELSE c

\* CharMatches as it would be had the pattern been compiled without
\* re.IGNORECASE.
CharMatchesExactly(c, p) == c = p

\* One pattern character against one subject character under re.IGNORECASE.
CharMatches(c, p) == Lower(c) = Lower(p)

(***************************************************************************)
(* _SENSITIVE_PATTERN.search: positions are 1-based indices of the next    *)
(* character to consume, 1 .. Len(s) + 1.  Each element of the pattern is  *)
(* an operator giving the set of positions at which it can end when it is  *)
(* started at position i.                                                  *)
(***************************************************************************)
\* ^ without re.MULTILINE: only the start of the string.
AtStart(s, i) == i = 1

\* $ without re.MULTILINE: the end of the string, and also just before a
\* newline that is the last character of the string.
AtEnd(s, i) ==
    \/ i = Len(s) + 1
    \/ i = Len(s) /\ s[i] = NEWLINE

\* (^|_)
LeftBoundary(s, i) ==
    (IF AtStart(s, i) THEN {i} ELSE {})
        \cup (IF i <= Len(s) /\ s[i] = UNDERSCORE THEN {i + 1} ELSE {})

\* (_|$)
RightBoundary(s, i) ==
    (IF i <= Len(s) /\ s[i] = UNDERSCORE THEN {i + 1} ELSE {})
        \cup (IF AtEnd(s, i) THEN {i} ELSE {})

\* A literal such as KEY.
Literal(s, i, lit) ==
    IF /\ i + Len(lit) - 1 <= Len(s)
       /\ \A j \in 1..Len(lit) : CharMatches(s[i + j - 1], lit[j])
    THEN {i + Len(lit)}
    ELSE {}

\* (^|_)(KEY|TOKEN|CRED|SECRET|AUTH|PASSWORD|PASSPHRASE)
PrefixAlternative(s, i) ==
    UNION {UNION {Literal(s, j, PrefixTokens[t]) : t \in 1..Len(PrefixTokens)}
             : j \in LeftBoundary(s, i)}

\* (^|_)PASS(_|$)
PassAlternative(s, i) ==
    UNION {UNION {RightBoundary(s, e) : e \in Literal(s, j, PASS)}
             : j \in LeftBoundary(s, i)}

\* The whole pattern started at position i: the positions a match can end at.
_SENSITIVE_PATTERN(s, i) == PrefixAlternative(s, i) \cup PassAlternative(s, i)

\* _SENSITIVE_PATTERN.search(key) is not None
_is_sensitive_key(name) ==
    \E i \in 1..(Len(name) + 1) : _SENSITIVE_PATTERN(name, i) # {}

(***************************************************************************)
(* _redact_value: re.sub(r"[a-zA-Z0-9]", "*", value).                      *)
(***************************************************************************)
\* InClass as it would be had the class been written \w: that also takes
\* the underscore and the letters and digits outside ASCII (of the alphabet
\* used here: e-acute, U+00E9, and the Arabic-Indic digit one, U+0661).
InWordClass(c) ==
    c \in 97..122 \/ c \in 65..90 \/ c \in 48..57 \/ c = UNDERSCORE
        \/ c = 233 \/ c = 1633

\* [a-zA-Z0-9], compiled without flags.
InClass(c) == c \in 97..122 \/ c \in 65..90 \/ c \in 48..57

RECURSIVE Sub(_)
\* re.sub scans left to right; a match is one character long, so every
\* character is either replaced by the replacement or copied.
Sub(s) ==
    IF s = <<>> THEN <<>>
    ELSE (IF InClass(Head(s)) THEN <<STAR>> ELSE <<Head(s)>>) \o Sub(Tail(s))

_redact_value(v) == Sub(v)

(***************************************************************************)
(* Dicts: functions from keys to values.                                   *)
(***************************************************************************)
EmptyDict == [k \in {} |-> <<>>]

Keys(d) == DOMAIN d

\* d[k] = v
DictSet(d, k, v) == [x \in DOMAIN d \cup {k} |-> IF x = k THEN v ELSE d[x]]

\* del d[k], for a key of d.
DictDel(d, k) == [x \in DOMAIN d \ {k} |-> d[x]]

(***************************************************************************)
(* _get_debug_env.                                                         *)
(***************************************************************************)
\* ItemValue as it would be if the first character of a sensitive value were
\* left readable.
ItemValueKeepingFirst(k, v) ==
    IF _is_sensitive_key(k) /\ v # <<>>
    THEN <<Head(v)>> \o _redact_value(Tail(v))
    ELSE v

\* ItemValue as it would be with the two branches exchanged.
ItemValueInverted(k, v) == IF _is_sensitive_key(k) THEN v ELSE _redact_value(v)

\* _redact_value(value) if _is_sensitive_key(key) else value
ItemValue(k, v) == IF _is_sensitive_key(k) THEN _redact_value(v) ELSE v

\* DictComprehension as it would be with a filter that leaves the sensitive
\* entries out.
DictComprehensionSkipping(items) ==
    [k \in {x \in DOMAIN items : ~_is_sensitive_key(x)} |-> ItemValue(k, items[k])]

\* {key: ... for key, value in env.items()}: one entry per item of the
\* mapping, under the item's key.
DictComprehension(items) == [k \in DOMAIN items |-> ItemValue(k, items[k])]

(***************************************************************************)
(* Objects.  A reference is an index into the heap, a sequence of dicts;   *)
(* os.environ is the object at ENVIRON, made when the interpreter starts.  *)
(* None is the reference to no object.                                     *)
(***************************************************************************)
None == 0
ENVIRON == 1

HOME == <<72, 79, 77, 69>>
API_KEY == <<65, 80, 73, 95, 75, 69, 89>>

\* os.environ as the interpreter found it: HOME=a-1.
InitialEnviron == [k \in {HOME} |-> <<97, 45, 49>>]

\* Source as it would be had the default been bound when the function is
\* defined (env=dict(os.environ) in the signature).
SourceBoundAtImport(h, env) == IF env = None THEN InitialEnviron ELSE h[env]

\* if env is None: env = os.environ.  The mapping whose items are read.
Source(h, env) == h[IF env = None THEN ENVIRON ELSE env]

\* _get_debug_env as it would be if it masked the values of its argument in
\* place and returned the argument.
GetDebugEnvInPlace(h, env) ==
    LET r == IF env = None THEN ENVIRON ELSE env
    IN [heap |-> [h EXCEPT ![r] = DictComprehension(h[r])], ret |-> r]

\* _get_debug_env(env) on the heap h: the comprehension builds a new dict
\* object and the function returns the reference to it.
_get_debug_env(h, env) ==
    [heap |-> Append(h, DictComprehension(Source(h, env))), ret |-> Len(h) + 1]

\* The debug_env tool: return _get_debug_env()
debug_env(h) == _get_debug_env(h, None)

(***************************************************************************)
(* SpecClassify: a caller hands names to _is_sensitive_key.  A name is a   *)
(* concatenation of at most MaxParts pieces; the second name is the first  *)
(* re-cased the way str.upper, str.lower, str.swapcase and str.title do on *)
(* ASCII letters.                                                          *)
(***************************************************************************)
MaxParts == 3

\* KEY spelt with the Kelvin sign, PASS spelt with two long s.
KelvinKEY == <<8490, 69, 89>>
LongSPASS == <<80, 65, 383, 383>>

Pieces ==
    {KEY, TOKEN, CRED, SECRET, AUTH, PASSWORD, PASSPHRASE, PASS,
     <<UNDERSCORE>>, <<88>>, <<NEWLINE>>, KelvinKEY, LongSPASS}

RECURSIVE NamesOf(_)
NamesOf(n) ==
    IF n = 0 THEN {<<>>}
    ELSE LET shorter == NamesOf(n - 1)
         IN shorter \cup {a \o p : a \in shorter, p \in Pieces}

IsAsciiUpper(c) == c \in 65..90
IsAsciiLower(c) == c \in 97..122

AsciiUpper(n) == [i \in 1..Len(n) |-> IF IsAsciiLower(n[i]) THEN n[i] - 32 ELSE n[i]]
AsciiLower(n) == [i \in 1..Len(n) |-> IF IsAsciiUpper(n[i]) THEN n[i] + 32 ELSE n[i]]
AsciiSwapCase(n) ==
    [i \in 1..Len(n) |->
        IF IsAsciiLower(n[i]) THEN n[i] - 32
        ELSE IF IsAsciiUpper(n[i]) THEN n[i] + 32
        ELSE n[i]]
\* Api_Key from API_KEY: a capital after the start or a non-letter, else small.
AsciiTitle(n) ==
    [i \in 1..Len(n) |->
        IF i = 1 \/ ~(IsAsciiUpper(n[i - 1]) \/ IsAsciiLower(n[i - 1]))
        THEN AsciiUpper(n)[i]
        ELSE AsciiLower(n)[i]]

Recasings(n) == {AsciiUpper(n), AsciiLower(n), AsciiSwapCase(n), AsciiTitle(n)}

NoVerdicts == [n \in {} |-> FALSE]

InitIdleRedact == value = <<>> /\ masked = <<>>
InitIdleView == envA = EmptyDict /\ envB = EmptyDict /\ outA = <<>> /\ outB = <<>>
InitIdleHeap == heap = <<>> /\ op = [name |-> "init", arg |-> None] /\ src = None /\ ret = None
InitIdleConc == order = <<>> /\ pc = "idle" /\ pending = <<>> /\ acc = EmptyDict /\ instants = {}
InitIdleClassify == key = <<>> /\ variant = <<>> /\ verdicts = NoVerdicts

InitClassify ==
    /\ key \in NamesOf(MaxParts)
    /\ variant \in Recasings(key)
    /\ verdicts = NoVerdicts
    /\ InitIdleRedact /\ InitIdleView /\ InitIdleHeap /\ InitIdleConc

\* verdict = _is_sensitive_key(name), for a name not yet classified.
IsSensitiveKeyCall(name) ==
    /\ name \notin DOMAIN verdicts
    /\ verdicts' = [n \in DOMAIN verdicts \cup {name} |->
                       IF n = name THEN _is_sensitive_key(name) ELSE verdicts[n]]
    /\ UNCHANGED <<key, variant>>
    /\ UNCHANGED <<redactVars, viewVars, heapVars, concVars>>

NextClassify == \E name \in {key, variant} : IsSensitiveKeyCall(name)

SpecClassify == InitClassify /\ [][NextClassify]_vars

(***************************************************************************)
(* The classifier's rules as the specification words them, position by     *)
(* position over the name.                                                 *)
(***************************************************************************)
\* The token stands in n from index i on, whatever the case of its letters.
OccursAt(n, i, tok) ==
    /\ i >= 1
    /\ i + Len(tok) - 1 <= Len(n)
    /\ \A j \in 1..Len(tok) : Lower(n[i + j - 1]) = Lower(tok[j])

\* Index i is the very start of the name or comes right after an underscore.
StartsWord(n, i) == i = 1 \/ (i > 1 /\ n[i - 1] = UNDERSCORE)

\* Index i is past the end of the name or holds an underscore.
EndsWord(n, i) == i = Len(n) + 1 \/ (i <= Len(n) /\ n[i] = UNDERSCORE)

AnchoredTokenOccurs(n) ==
    \E t \in 1..Len(PrefixTokens) : \E i \in 1..Len(n) :
        StartsWord(n, i) /\ OccursAt(n, i, PrefixTokens[t])

BoundedPassOccurs(n) ==
    \E i \in 1..Len(n) :
        StartsWord(n, i) /\ OccursAt(n, i, PASS) /\ EndsWord(n, i + Len(PASS))

\* The two names are of one length and differ at most in the case of ASCII
\* letters.
SameUpToAsciiCase(a, b) ==
    /\ Len(a) = Len(b)
    /\ \A i \in 1..Len(a) :
          \/ a[i] = b[i]
          \/ IsAsciiUpper(a[i]) /\ b[i] = a[i] + 32
          \/ IsAsciiLower(a[i]) /\ b[i] = a[i] - 32

\* C2 (as claimed): a name without a PASS bounded on both sides is sensitive
\* exactly when one of KEY, TOKEN, CRED, SECRET, AUTH, PASSWORD, PASSPHRASE
\* occurs in it starting at the start of the name or right after an underscore.
C2_PrefixTokensDecide ==
    \A n \in DOMAIN verdicts :
        ~BoundedPassOccurs(n) => (verdicts[n] <=> AnchoredTokenOccurs(n))

\* C3 (as claimed): a name in which no other token matches is sensitive
\* exactly when PASS occurs in it with the start of the name or an underscore
\* before it and the end of the name or an underscore after it.
C3_PassBoundedBothSides ==
    \A n \in DOMAIN verdicts :
        ~AnchoredTokenOccurs(n) => (verdicts[n] <=> BoundedPassOccurs(n))

\* C8: two names that differ only in the case of their ASCII letters get the
\* same verdict from _is_sensitive_key.
C8_CaseInsensitive ==
    \A a \in DOMAIN verdicts : \A b \in DOMAIN verdicts :
        SameUpToAsciiCase(a, b) => verdicts[a] = verdicts[b]

\* Two differently cased spellings of one name were both classified, as
\* sensitive.
C8_Witness ==
    /\ key # variant
    /\ DOMAIN verdicts = {key, variant}
    /\ SameUpToAsciiCase(key, variant)
    /\ verdicts[key]
    /\ verdicts[variant]

(***************************************************************************)
(* SpecRedact: a caller hands a string of at most MaxLen characters to     *)
(* _redact_value.                                                          *)
(***************************************************************************)
MaxLen == 3

\* a z A Z 0 9, and characters outside the class: - _ space @ { e-acute
\* (U+00E9) and the Arabic-Indic digit one (U+0661).
Alphabet == {97, 122, 65, 90, 48, 57, 45, UNDERSCORE, 32, 64, 123, 233, 1633}

RECURSIVE StringsOf(_)
StringsOf(n) ==
    IF n = 0 THEN {<<>>}
    ELSE LET shorter == StringsOf(n - 1)
         IN shorter \cup {Append(a, c) : a \in shorter, c \in Alphabet}

InitRedact ==
    /\ value \in StringsOf(MaxLen)
    /\ masked = <<>>
    /\ InitIdleClassify /\ InitIdleView /\ InitIdleHeap /\ InitIdleConc

\* masked = _redact_value(value)
RedactValueCall ==
    /\ masked = <<>>
    /\ masked' = <<_redact_value(value)>>
    /\ UNCHANGED value
    /\ UNCHANGED <<classifyVars, viewVars, heapVars, concVars>>

NextRedact == RedactValueCall

SpecRedact == InitRedact /\ [][NextRedact]_vars

IsAsciiLetter(c) == (65 <= c /\ c <= 90) \/ (97 <= c /\ c <= 122)
IsAsciiDigit(c) == 48 <= c /\ c <= 57

\* C4: _redact_value(v) is as long as v and holds, at each position, '*'
\* where v holds an ASCII letter or digit and v's own character elsewhere.
C4_RedactPositionwise ==
    masked # <<>> =>
        LET r == masked[1]
        IN /\ Len(r) = Len(value)
           /\ \A i \in 1..Len(value) :
                 r[i] = IF IsAsciiLetter(value[i]) \/ IsAsciiDigit(value[i])
                        THEN STAR
                        ELSE value[i]

\* A value with an ASCII letter or digit (masked) and a letter outside ASCII
\* (kept) went through _redact_value.
C4_Witness ==
    /\ masked # <<>>
    /\ \E i \in 1..Len(value) : IsAsciiLetter(value[i]) /\ masked[1][i] = STAR
    /\ \E i \in 1..Len(value) : value[i] = 233 /\ masked[1][i] = 233

(***************************************************************************)
(* SpecView: a caller builds two explicit mappings of at most MaxEntries   *)
(* entries and hands each to _get_debug_env.                               *)
(***************************************************************************)
MaxEntries == 2

db_pass == <<100, 98, 95, 112, 97, 115, 115>>
COMPASS == <<67, 79, 77, 80, 65, 83, 83>>

ViewKeys == {API_KEY, HOME, db_pass, COMPASS}

\* "a-1", "Z-9" and "-" followed by e-acute.
ViewValues == {<<97, 45, 49>>, <<90, 45, 57>>, <<45, 233>>}

\* Every dict of at most n entries over the keys ks and the values vs.
DictsOf(ks, vs, n) ==
    UNION {[S -> vs] : S \in {T \in SUBSET ks : Cardinality(T) <= n}}

InitView ==
    /\ envA \in DictsOf(ViewKeys, ViewValues, MaxEntries)
    /\ envB \in DictsOf(ViewKeys, ViewValues, MaxEntries)
    /\ outA = <<>>
    /\ outB = <<>>
    /\ InitIdleClassify /\ InitIdleRedact /\ InitIdleHeap /\ InitIdleConc

\* outA = _get_debug_env(envA)
GetDebugEnvOfA ==
    /\ outA = <<>>
    /\ outA' = <<DictComprehension(envA)>>
    /\ UNCHANGED <<envA, envB, outB>>
    /\ UNCHANGED <<classifyVars, redactVars, heapVars, concVars>>

\* outB = _get_debug_env(envB)
GetDebugEnvOfB ==
    /\ outB = <<>>
    /\ outB' = <<DictComprehension(envB)>>
    /\ UNCHANGED <<envA, envB, outA>>
    /\ UNCHANGED <<classifyVars, redactVars, heapVars, concVars>>

NextView == GetDebugEnvOfA \/ GetDebugEnvOfB

SpecView == InitView /\ [][NextView]_vars

IsAsciiAlnum(c) == IsAsciiLetter(c) \/ IsAsciiDigit(c)

\* out holds, for every (name, value) of env, the masked value under a
\* sensitive name and the value itself under any other.
ViewOf(env, out) ==
    \A name \in DOMAIN env :
        /\ name \in DOMAIN out
        /\ out[name] = IF _is_sensitive_key(name)
                       THEN _redact_value(env[name])
                       ELSE env[name]

\* C1: for every (name, value) of the input, _get_debug_env maps name to
\* _redact_value(value) when _is_sensitive_key(name) and to value unchanged
\* when not.
C1_ViewPerEntry ==
    /\ outA # <<>> => ViewOf(envA, outA[1])
    /\ outB # <<>> => ViewOf(envB, outB[1])

\* A mapping with a sensitive and a non-sensitive name, both with values that
\* hold ASCII letters or digits, went through _get_debug_env.
C1_Witness ==
    /\ outA # <<>>
    /\ \E name \in DOMAIN envA :
          /\ _is_sensitive_key(name)
          /\ outA[1][name] # envA[name]
    /\ \E name \in DOMAIN envA :
          /\ ~_is_sensitive_key(name)
          /\ \E j \in 1..Len(envA[name]) : IsAsciiAlnum(envA[name][j])
          /\ outA[1][name] = envA[name]

\* The keys of out are those of env, and nothing comes of nothing.
SameKeys(env, out) ==
    /\ DOMAIN out = DOMAIN env
    /\ env = EmptyDict => out = EmptyDict

\* C5: the key set of _get_debug_env(env) is the key set of env, and the
\* empty mapping gives the empty mapping.
C5_KeySetPreserved ==
    /\ outA # <<>> => SameKeys(envA, outA[1])
    /\ outB # <<>> => SameKeys(envB, outB[1])

\* A mapping with a sensitive name among its keys and the empty mapping both
\* went through _get_debug_env.
C5_Witness ==
    /\ outA # <<>> /\ outB # <<>>
    /\ Cardinality(DOMAIN envA) = MaxEntries
    /\ \E name \in DOMAIN envA : _is_sensitive_key(name)
    /\ envB = EmptyDict

\* The two values are of one length and differ only where both hold an ASCII
\* letter or digit.
SameShape(v, w) ==
    /\ Len(v) = Len(w)
    /\ \A j \in 1..Len(v) : v[j] = w[j] \/ (IsAsciiAlnum(v[j]) /\ IsAsciiAlnum(w[j]))

\* The two mappings are equal except for the letters and digits of the values
\* under sensitive names.
SecretVariants(a, b) ==
    /\ DOMAIN a = DOMAIN b
    /\ \A name \in DOMAIN a :
          IF _is_sensitive_key(name)
          THEN SameShape(a[name], b[name])
          ELSE a[name] = b[name]

NoAlnumUnderSensitive(out) ==
    \A name \in DOMAIN out :
        _is_sensitive_key(name) =>
            \A j \in 1..Len(out[name]) : ~IsAsciiAlnum(out[name][j])

\* C10: two inputs that differ only in which ASCII letters and digits their
\* sensitive values hold give the same output, and no output value under a
\* sensitive name holds an ASCII letter or digit.
C10_SecretsNotRevealed ==
    /\ (outA # <<>> /\ outB # <<>> /\ SecretVariants(envA, envB)) => outA[1] = outB[1]
    /\ outA # <<>> => NoAlnumUnderSensitive(outA[1])
    /\ outB # <<>> => NoAlnumUnderSensitive(outB[1])

\* Two inputs that differ in the letters and digits of a sensitive value both
\* went through _get_debug_env.
C10_Witness ==
    /\ outA # <<>> /\ outB # <<>>
    /\ envA # envB
    /\ SecretVariants(envA, envB)
    /\ \E name \in DOMAIN envA : ~_is_sensitive_key(name)

(***************************************************************************)
(* Spec: one thread of a process that sets and deletes entries of          *)
(* os.environ and of its own dicts, and calls _get_debug_env and the       *)
(* debug_env tool.  At most MaxObjects dict objects exist.                 *)
(***************************************************************************)
MaxObjects == 3

HeapKeys == {API_KEY, HOME}

\* "a-1" and "Z-9".
HeapValues == {<<97, 45, 49>>, <<90, 45, 57>>}

Init ==
    /\ heap = <<InitialEnviron>>
    /\ op = [name |-> "init", arg |-> None]
    /\ src = None
    /\ ret = None
    /\ InitIdleClassify /\ InitIdleRedact /\ InitIdleView /\ InitIdleConc

\* d = {} in the caller.
NewDict ==
    /\ Len(heap) < MaxObjects
    /\ heap' = Append(heap, EmptyDict)
    /\ op' = [name |-> "dict", arg |-> None]
    /\ UNCHANGED <<src, ret>>
    /\ UNCHANGED <<classifyVars, redactVars, viewVars, concVars>>

\* d[k] = v in the caller, d being os.environ, a dict of the caller's or a
\* dict a call returned: a new key, or a new value for a key.
SetItem(r, k, v) ==
    /\ k \in Keys(heap[r]) => heap[r][k] # v
    /\ heap' = [heap EXCEPT ![r] = DictSet(@, k, v)]
    /\ op' = [name |-> "setitem", arg |-> IF r = ret THEN ret ELSE None]
    /\ UNCHANGED <<src, ret>>
    /\ UNCHANGED <<classifyVars, redactVars, viewVars, concVars>>

\* del d[k] in the caller.
DelItem(r, k) ==
    /\ k \in Keys(heap[r])
    /\ heap' = [heap EXCEPT ![r] = DictDel(@, k)]
    /\ op' = [name |-> "delitem", arg |-> IF r = ret THEN ret ELSE None]
    /\ UNCHANGED <<src, ret>>
    /\ UNCHANGED <<classifyVars, redactVars, viewVars, concVars>>

\* _get_debug_env(env), env being None or one of the caller's mappings.
GetDebugEnvCall(env) ==
    /\ Len(heap) < MaxObjects
    /\ LET c == _get_debug_env(heap, env)
       IN /\ heap' = c.heap
          /\ ret' = c.ret
    /\ src' = IF env = None THEN ENVIRON ELSE env
    /\ op' = [name |-> "_get_debug_env", arg |-> env]
    /\ UNCHANGED <<classifyVars, redactVars, viewVars, concVars>>

\* The debug_env tool, which takes no argument.
DebugEnvCall ==
    /\ Len(heap) < MaxObjects
    /\ LET c == debug_env(heap)
       IN /\ heap' = c.heap
          /\ ret' = c.ret
    /\ src' = ENVIRON
    /\ op' = [name |-> "debug_env", arg |-> None]
    /\ UNCHANGED <<classifyVars, redactVars, viewVars, concVars>>

Next ==
    \/ NewDict
    \/ \E r \in 1..Len(heap), k \in HeapKeys, v \in HeapValues : SetItem(r, k, v)
    \/ \E r \in 1..Len(heap), k \in HeapKeys : DelItem(r, k)
    \/ \E env \in {None} \cup (2..Len(heap)) : GetDebugEnvCall(env)
    \/ DebugEnvCall

Spec == Init /\ [][Next]_vars

\* The step is a call of _get_debug_env or of the debug_env tool: every
\* action records itself in op.
IsCall(o) == o.name \in {"_get_debug_env", "debug_env"}

\* C6: a call changes no object that existed before it, the input mapping and
\* os.environ among them, and returns a reference to a new object; a later
\* change of the returned mapping changes neither the input mapping nor
\* os.environ.
C6_InputUntouchedResultFresh ==
    [][/\ IsCall(op') =>
             /\ ret' \notin 1..Len(heap)
             /\ \A r \in 1..Len(heap) : heap'[r] = heap[r]
       /\ (ret # None /\ heap'[ret] # heap[ret]) =>
             /\ heap'[src] = heap[src]
             /\ heap'[ENVIRON] = heap[ENVIRON]]_vars

\* The mapping returned by a call on one of the caller's own mappings was
\* changed afterwards: it no longer has the keys of the input.
C6_Witness ==
    /\ op.name \in {"setitem", "delitem"}
    /\ ret # None
    /\ op.arg = ret
    /\ src \notin {None, ENVIRON}
    /\ heap[src] # EmptyDict
    /\ DOMAIN heap[ret] # DOMAIN heap[src]

\* C7: a call without an explicit mapping returns the view of os.environ as
\* it is when the call is made: its keys are the variables set at that
\* moment and its values their current values, masked or not by the name.
C7_ReadsEnvironAtCall ==
    [][(IsCall(op') /\ op'.arg = None) =>
          /\ DOMAIN heap'[ret'] = DOMAIN heap[ENVIRON]
          /\ ViewOf(heap[ENVIRON], heap'[ret'])]_vars

\* debug_env was called after os.environ had been changed since an earlier
\* call without an explicit mapping, whose result is still on the heap.
C7_Witness ==
    /\ op.name = "debug_env"
    /\ heap[ENVIRON] # InitialEnviron
    /\ \E name \in DOMAIN heap[ENVIRON] : _is_sensitive_key(name)
    /\ \E r \in 2..(ret - 1) : heap[r] = DictComprehension(InitialEnviron)

(***************************************************************************)
(* SpecConc: one thread runs _get_debug_env() while another sets and       *)
(* deletes entries of os.environ.  The comprehension iterates              *)
(* os.environ.items(), a view of the live mapping: the iterator lists the  *)
(* keys when the loop starts and reads the value of each key from the      *)
(* mapping when it yields it; a key deleted in between raises KeyError.    *)
(* The interpreter may switch threads between any two of these reads.      *)
(***************************************************************************)
InitConc ==
    /\ heap = <<InitialEnviron>>
    /\ order = <<HOME>>
    /\ pc = "idle"
    /\ pending = <<>>
    /\ acc = EmptyDict
    /\ instants = {}
    /\ op = [name |-> "init", arg |-> None]
    /\ src = None
    /\ ret = None
    /\ InitIdleClassify /\ InitIdleRedact /\ InitIdleView

\* What os.environ held at some time since the call started.
Seen(environ) == IF pc = "iterating" THEN instants \cup {environ} ELSE instants

\* os.environ[k] = v in the other thread.
OtherThreadSets(k, v) ==
    /\ pc \in {"idle", "iterating"}
    /\ k \in Keys(heap[ENVIRON]) => heap[ENVIRON][k] # v
    /\ heap' = [heap EXCEPT ![ENVIRON] = DictSet(@, k, v)]
    /\ order' = IF k \in Keys(heap[ENVIRON]) THEN order ELSE Append(order, k)
    /\ instants' = Seen(heap'[ENVIRON])
    /\ UNCHANGED <<pc, pending, acc, op, src, ret>>
    /\ UNCHANGED <<classifyVars, redactVars, viewVars>>

\* del os.environ[k] in the other thread.
OtherThreadDeletes(k) ==
    /\ pc \in {"idle", "iterating"}
    /\ k \in Keys(heap[ENVIRON])
    /\ heap' = [heap EXCEPT ![ENVIRON] = DictDel(@, k)]
    /\ order' = LET Other(x) == x # k IN SelectSeq(order, Other)
    /\ instants' = Seen(heap'[ENVIRON])
    /\ UNCHANGED <<pc, pending, acc, op, src, ret>>
    /\ UNCHANGED <<classifyVars, redactVars, viewVars>>

\* _get_debug_env() is entered: env = os.environ, and the loop over
\* env.items() starts with the list of the keys the mapping has now.
IterationStarts ==
    /\ pc = "idle"
    /\ pc' = "iterating"
    /\ pending' = order
    /\ acc' = EmptyDict
    /\ instants' = {Source(heap, None)}
    /\ UNCHANGED <<heap, order, op, src, ret>>
    /\ UNCHANGED <<classifyVars, redactVars, viewVars>>

\* The iterator yields the next key with the value the mapping holds for it
\* now, and the comprehension stores the entry; KeyError when the key is gone.
IterationYields ==
    /\ pc = "iterating"
    /\ pending # <<>>
    /\ LET k == Head(pending)
           environ == Source(heap, None)
       IN IF k \in Keys(environ)
          THEN /\ acc' = DictSet(acc, k, ItemValue(k, environ[k]))
               /\ pending' = Tail(pending)
               /\ pc' = pc
          ELSE /\ pc' = "raised"
               /\ UNCHANGED <<acc, pending>>
    /\ UNCHANGED <<heap, order, instants, op, src, ret>>
    /\ UNCHANGED <<classifyVars, redactVars, viewVars>>

\* The iterator is exhausted and the function returns the dict.
IterationEnds ==
    /\ pc = "iterating"
    /\ pending = <<>>
    /\ pc' = "returned"
    /\ UNCHANGED <<heap, order, pending, acc, instants, op, src, ret>>
    /\ UNCHANGED <<classifyVars, redactVars, viewVars>>

NextConc ==
    \/ \E k \in HeapKeys, v \in HeapValues : OtherThreadSets(k, v)
    \/ \E k \in HeapKeys : OtherThreadDeletes(k)
    \/ IterationStarts
    \/ IterationYields
    \/ IterationEnds

SpecConc == InitConc /\ [][NextConc]_vars

\* C9 (as claimed): a call during which another thread changes os.environ
\* does not fail, and what it returns is the view of os.environ as it was at
\* one single instant of the call.
C9_ConsistentSnapshot ==
    /\ pc # "raised"
    /\ pc = "returned" =>
          \E e \in instants : DOMAIN acc = DOMAIN e /\ ViewOf(e, acc)

=============================================================================
